---- MODULE Spec2Model ----
(***************************************************************************)
(* Job-lifecycle clients of the media backends (ComfyUI, LocalAI, RVC,     *)
(* UVR5): submit, poll under a deadline, resolve outputs, download.        *)
(*                                                                         *)
(* Spec      : one call of comfyui_mcp.server.execute_workflow, one step   *)
(*             per backend request, the backend's answers chosen freely.   *)
(* SpecWait  : one call of ComfyUIClient.wait_for_completion with free     *)
(*             max_wait and poll_interval.                                 *)
(* SpecLocalAI : repeated calls of localai_mcp.server.text_to_speech and  *)
(*             generate_audio against one file system and wall clock.      *)
(* SpecStems : repeated calls of rvc_mcp.server.convert_voice and          *)
(*             uvr5_mcp.server.separate_audio, likewise.                   *)
(* SpecAdapters : one call of any tool of the four servers.                *)
(* SpecInject : execute_workflow from the workflow path to the submission: *)
(*             load_workflow, prompt_text, workflow_params.                *)
(* SpecTrain : one call of RVCClient.train_model, by steps.                *)
(***************************************************************************)
EXTENDS Integers, Sequences, FiniteSets, TLC

\* ------------------------------------------------------------------ bounds
\* largest max_wait a caller passes (seconds)
MaxWait == 5
\* longest time one history request takes (seconds)
MaxReqTime == 2
\* largest poll_interval a direct caller of wait_for_completion passes
MaxPoll == 2
\* polls after which the model stops following a wait that makes no progress
MaxPolls == 4
\* latest wall-clock second at which a call begins
MaxStart == 1
\* tool calls followed in SpecLocalAI and SpecStems
MaxCalls == 2
\* most training files a call of train_model is given
MaxFiles == 3
\* last instant of the wall clock there, in ticks
MaxClock == 2
\* clock ticks in one second
TicksPerSecond == 2
\* poll_interval's default, the one execute_workflow waits with
DefaultPollInterval == 2

\* ------------------------------------------------------- JSON-like values
\* Python's None, where a string is expected
NoneStr == "<None>"

\* a value of the "prompt_id" field of the POST /prompt answer
NullV == [t |-> "null", s |-> ""]
StrV(x) == [t |-> "str", s |-> x]

\* Python truthiness of such a value (client.py:106 "if not prompt_id")
Truthy(v) == v.t = "str" /\ v.s # ""

\* one file entry of an "images"/"audio" list
File(name, sub) == [filename |-> name, subfolder |-> sub]

\* one node's output: the lists it has, by kind, in key order
NodeOut(kinds, images, audio) == [kinds |-> kinds, images |-> images, audio |-> audio]

\* one history entry: a record for a prompt, with or without "outputs";
\* outputs is the ordered mapping node_id -> node output
Entry(hasOutputs, outputs) == [t |-> "dict", hasOutputs |-> hasOutputs, outputs |-> outputs]
\* an entry that is no mapping (a JSON null)
NullEntry == [t |-> "null", hasOutputs |-> FALSE, outputs |-> << >>]

\* a history body: a mapping prompt id -> entry (an ordered list of pairs),
\* or a JSON value that is no container (null)
Dict(items) == [t |-> "dict", items |-> items]
NullBody == [t |-> "null", items |-> << >>]
EmptyDict == Dict(<< >>)

\* an HTTP answer to GET /history/<id>
Resp(status, body) == [status |-> status, body |-> body]

\* `key in d` for a mapping held as an ordered list of <<key, value>> pairs
HasKey(d, k) == \E i \in 1..Len(d.items) : d.items[i][1] = k
\* d[key], for a key the mapping has
Get(d, k) == d.items[CHOOSE i \in 1..Len(d.items) : d.items[i][1] = k][2]

\* -------------------------------------------------- comfyui_mcp/client.py
\* get_history without raise_for_status: the body whatever the status
GetHistoryAnyStatus(resp) == resp.body

\* get_history: the parsed body of a 2xx answer, {} for a transport error, a
\* non-2xx status or a body that is no JSON
GetHistory(resp) == IF resp.status = "ok" THEN resp.body ELSE EmptyDict

\* the body of wait_for_completion's try block (client.py:164-169) on one
\* fetched history: "completed" (return True), "pending" (fall through to the
\* sleep) or "exc" (a TypeError: `in` applied to a value that is no container)
PollOutcome(history, pid) ==
  IF history.t # "dict" THEN "exc"
  ELSE IF ~HasKey(history, pid) THEN "pending"
  ELSE LET prompt_data == Get(history, pid) IN
       IF prompt_data.t # "dict" THEN "exc"
       ELSE IF prompt_data.hasOutputs THEN "completed"
       ELSE "pending"

\* the loop iteration without the except clause of client.py:172-174
IterationStepUncaught(outcome) ==
  CASE outcome = "completed" -> "return_true"
    [] outcome = "pending"   -> "sleep"
    [] outcome = "exc"       -> "raise"

\* an iteration that gives the wait up when the record has no outputs
IterationStepGiveUp(outcome) ==
  CASE outcome = "completed" -> "return_true"
    [] outcome = "pending"   -> "return_false"
    [] outcome = "exc"       -> "sleep"

\* what one loop iteration does with that outcome: the except clause of
\* client.py:172-174 turns an exception into a sleep
IterationStep(outcome) ==
  CASE outcome = "completed" -> "return_true"
    [] outcome = "pending"   -> "sleep"
    [] outcome = "exc"       -> "sleep"

\* a loop that is entered when the elapsed time equals max_wait
LoopCondInclusive(t, start, maxw) == t - start <= maxw

\* the loop condition of client.py:162
LoopCond(t, start, maxw) == t - start < maxw

\* an output descriptor (client.py:200-205, 208-213)
Desc(type, f, node_id) ==
  [type |-> type, filename |-> f.filename, subfolder |-> f.subfolder, node_id |-> node_id]

\* the second block written as a copy of the first, its tag left as it was
NodeFilesOneTag(node_id, out) ==
  (IF "images" \in out.kinds
     THEN [i \in 1..Len(out.images) |-> Desc("image", out.images[i], node_id)]
     ELSE << >>)
  \o
  (IF "audio" \in out.kinds
     THEN [i \in 1..Len(out.audio) |-> Desc("image", out.audio[i], node_id)]
     ELSE << >>)

\* the descriptors of one node, images before audio (client.py:198-213)
NodeFiles(node_id, out) ==
  (IF "images" \in out.kinds
     THEN [i \in 1..Len(out.images) |-> Desc("image", out.images[i], node_id)]
     ELSE << >>)
  \o
  (IF "audio" \in out.kinds
     THEN [i \in 1..Len(out.audio) |-> Desc("audio", out.audio[i], node_id)]
     ELSE << >>)

\* the loop over outputs.items() (client.py:197)
RECURSIVE Flatten(_)
Flatten(outputs) ==
  IF outputs = << >> THEN << >>
  ELSE NodeFiles(Head(outputs)[1], Head(outputs)[2]) \o Flatten(Tail(outputs))

\* what get_output_files gives its caller: a list, or an exception
Files(files) == [exc |-> FALSE, files |-> files]
FilesExc == [exc |-> TRUE, files |-> << >>]

\* a try block that takes a node output of a kind it does not know for an
\* error
OutputFilesBodyStrict(history, pid) ==
  IF history.t # "dict" THEN FilesExc
  ELSE IF ~HasKey(history, pid) THEN Files(<< >>)
  ELSE LET e == Get(history, pid) IN
       IF e.t # "dict" THEN FilesExc
       ELSE IF e.hasOutputs /\ \E i \in 1..Len(e.outputs) :
                                  e.outputs[i][2].kinds \ {"images", "audio"} # {}
         THEN FilesExc
       ELSE Files(Flatten(IF e.hasOutputs THEN e.outputs ELSE << >>))

\* the try block of get_output_files (client.py:190-215) on the history it
\* fetched: `in` on a history, or .get on an entry, that is no mapping raises
OutputFilesBody(history, pid) ==
  IF history.t # "dict" THEN FilesExc
  ELSE IF ~HasKey(history, pid) THEN Files(<< >>)
  ELSE LET e == Get(history, pid) IN
       IF e.t # "dict" THEN FilesExc
       ELSE Files(Flatten(IF e.hasOutputs THEN e.outputs ELSE << >>))

\* get_output_files without its except clause
GetOutputFilesUncaught(history, pid) == OutputFilesBody(history, pid)

\* get_output_files (client.py:179-218): the except clause gives []
GetOutputFiles(history, pid) ==
  IF OutputFilesBody(history, pid).exc THEN Files(<< >>) ELSE OutputFilesBody(history, pid)

\* results of a function that may raise
Return(v) == [exc |-> FALSE, context |-> "", cause |-> "", val |-> v]
Raise(context, cause) == [exc |-> TRUE, context |-> context, cause |-> cause, val |-> NullV]

\* queue_prompt without the test of client.py:106-107
QueuePromptUnchecked(resp) ==
  IF resp.status # "ok" THEN Raise("Failed to queue workflow", resp.status)
  ELSE IF resp.body.t # "dict" THEN Raise("Failed to queue workflow", "AttributeError")
  ELSE Return(IF resp.body.has_pid THEN resp.body.pid ELSE NullV)

\* queue_prompt on the answer to POST /prompt (client.py:98-113); every
\* exception of the try block is re-raised with the context of line 113
QueuePrompt(resp) ==
  IF resp.status # "ok" THEN Raise("Failed to queue workflow", resp.status)
  ELSE IF resp.body.t # "dict" THEN Raise("Failed to queue workflow", "AttributeError")
  ELSE LET prompt_id == IF resp.body.has_pid THEN resp.body.pid ELSE NullV IN
       IF ~Truthy(prompt_id)
         THEN Raise("Failed to queue workflow", "No prompt_id in response")
         ELSE Return(prompt_id)

\* the loop iteration that takes a failed history request for the job's
\* failure and gives up
PollStepFailFast(resp, pid) ==
  IF resp.status # "ok" THEN "return_false"
  ELSE IterationStep(PollOutcome(GetHistory(resp), pid))

\* one loop iteration of wait_for_completion on the answer to its history
\* request (client.py:163-174): "return_true" or "sleep"
PollStep(resp, pid) == IterationStep(PollOutcome(GetHistory(resp), pid))

\* ------------------------------------------------- check_health, all four
\* the adapters, and the liveness path each one's check_health asks for
Adapters == {"comfyui", "localai", "rvc", "uvr5"}
HealthPath(adapter) ==
  CASE adapter = "comfyui" -> "/system_stats"
    [] adapter = "localai" -> "/readyz"
    [] adapter = "rvc"     -> "/health"
    [] adapter = "uvr5"    -> "/health"

\* what the liveness GET meets: an exception of the transport (refused
\* connection, failed name lookup, timeout) or an answer with a status code
HealthAnswer(kind, status_code) == [kind |-> kind, status_code |-> status_code]
HealthAnswers ==
  { HealthAnswer("ConnectError", 0), HealthAnswer("TimeoutException", 0),
    HealthAnswer("response", 200), HealthAnswer("response", 204),
    HealthAnswer("response", 503) }
NoHealthAnswer == HealthAnswer("none", 0)

\* what check_health gives its caller: a boolean, or an exception
Health(val) == [exc |-> FALSE, val |-> val]
HealthExc == [exc |-> TRUE, val |-> FALSE]

\* check_health without its except clause
CheckHealthUncaught(answer) ==
  IF answer.kind # "response" THEN HealthExc ELSE Health(answer.status_code = 200)

\* check_health (comfyui_mcp/client.py:40-52, and lines 38-50 of the three
\* other clients): the status code compared with 200, False for an exception
CheckHealth(answer) ==
  IF answer.kind # "response" THEN Health(FALSE) ELSE Health(answer.status_code = 200)

\* a tool that does not look at what check_health returned
ProbeOutcomeIgnored(answer) == "healthy"

\* `if not client.check_health()` at the head of a tool: the tool goes on,
\* returns its connection error, or is left by check_health's exception
ProbeOutcome(answer) ==
  IF CheckHealth(answer).exc THEN "raised"
  ELSE IF CheckHealth(answer).val THEN "healthy" ELSE "unhealthy"

\* a probe as the model remembers it
Probe(adapter, answer) ==
  [adapter |-> adapter, path |-> HealthPath(adapter), answer |-> answer,
   returned |-> CheckHealth(answer)]
NoProbe ==
  [adapter |-> "none", path |-> "", answer |-> NoHealthAnswer, returned |-> Health(FALSE)]

\* ------------------------------------------------- workflow templates
\* a JSON array
ListV(items) == [t |-> "list", items |-> items]

\* the keys of a mapping; d[k] = v, which keeps the place of a key the
\* mapping has and appends a new one; d.update(e)
Keys(d) == {d.items[i][1] : i \in 1..Len(d.items)}
Put(d, k, v) ==
  IF HasKey(d, k)
    THEN Dict([i \in 1..Len(d.items) |-> IF d.items[i][1] = k THEN <<k, v>> ELSE d.items[i]])
    ELSE Dict(Append(d.items, <<k, v>>))
RECURSIVE UpdateItems(_, _)
UpdateItems(d, items) ==
  IF items = << >> THEN d
  ELSE UpdateItems(Put(d, Head(items)[1], Head(items)[2]), Tail(items))
Update(d, e) == UpdateItems(d, e.items)

\* nodes of a template: with a "text" input and without one
NodeV(class_type, inputs) ==
  Dict(<< <<"class_type", StrV(class_type)>>, <<"inputs", inputs>> >>)
TextNode ==
  Dict(<< <<"class_type", StrV("CLIPTextEncode")>>,
          <<"inputs", Dict(<< <<"text", StrV("old")>>, <<"clip", ListV(<<StrV("4")>>)>> >>)>>,
          <<"_meta", Dict(<< <<"title", StrV("text")>> >>)>> >>)
SamplerNode == NodeV("KSampler", Dict(<< <<"seed", StrV("1")>>, <<"steps", StrV("20")>> >>))

\* templates: two nodes; text nodes among a node without "inputs" and an
\* entry that is no mapping
WfTwo == Dict(<< <<"1", TextNode>>, <<"2", SamplerNode>> >>)
WfMany == Dict(<< <<"1", SamplerNode>>, <<"2", TextNode>>,
                  <<"3", Dict(<< <<"class_type", StrV("Note")>> >>)>>,
                  <<"4", StrV("a comment")>>, <<"5", TextNode>> >>)

\* the file at the workflow path: what open() and json.load() meet there.
\* error is str(e) of the exception they raise; content is what the file
\* holds (for an unparsable file, the part that would parse). Among the
\* valid ones: a node with null "inputs", which stops the injection half
\* way; a node with a list as "inputs"; the empty template; a JSON array
WorkflowFile(kind, error, content) == [kind |-> kind, error |-> error, content |-> content]
WorkflowFiles ==
  { WorkflowFile("missing", "No such file or directory", NullV),
    WorkflowFile("unreadable", "Permission denied", WfTwo),
    WorkflowFile("unparsable", "Expecting value", Dict(<< <<"1", TextNode>> >>)),
    WorkflowFile("unparsable", "Expecting value", EmptyDict),
    WorkflowFile("valid", "", WfTwo),
    WorkflowFile("valid", "", WfMany),
    WorkflowFile("valid", "", Dict(<< <<"1", TextNode>>, <<"2", NodeV("Odd", NullV)>>,
                                      <<"3", TextNode>> >>)),
    WorkflowFile("valid", "", Dict(<< <<"1", NodeV("Odd", ListV(<<StrV("text")>>))>>,
                                      <<"2", TextNode>> >>)),
    WorkflowFile("valid", "", EmptyDict),
    WorkflowFile("valid", "", ListV(<< >>)) }
NoFile == WorkflowFile("none", "", NullV)

\* what load_workflow gives its caller: the parsed template, or an exception
\* with the message of client.py:73
Loaded(workflow) == [exc |-> FALSE, message |-> << >>, val |-> workflow]
LoadRaise(workflow_path, cause) ==
  [exc |-> TRUE, message |-> <<"Failed to load workflow from ", workflow_path, ": ", cause>>,
   val |-> NullV]
NotLoaded == Loaded(NullV)

\* load_workflow that answers a file it cannot read or parse with what it
\* has of the template
LoadWorkflowLenient(workflow_path, file) ==
  IF file.kind = "missing" THEN Loaded(EmptyDict) ELSE Loaded(file.content)

\* load_workflow (client.py:54-73)
LoadWorkflow(workflow_path, file) ==
  IF file.kind = "valid" THEN Loaded(file.content) ELSE LoadRaise(workflow_path, file.error)

\* ------------------------------- injection (comfyui_mcp/server.py:78-94)
\* what a step of the injection leaves: the template as it now is, and
\* whether the step raised
Injected(exc, workflow) == [exc |-> exc, val |-> workflow]

\* prompt_text as the caller passes it: None, empty, or a text
PromptTexts == {NoneStr, "", "new"}

\* the loop body that sets "text" whether or not the inputs have the key
InjectNodeAlways(node_data, prompt_text) ==
  IF node_data.t # "dict" THEN Injected(FALSE, node_data)
  ELSE LET inputs == IF HasKey(node_data, "inputs") THEN Get(node_data, "inputs") ELSE EmptyDict
       IN IF inputs.t = "dict"
            THEN Injected(FALSE, Put(node_data, "inputs", Put(inputs, "text", StrV(prompt_text))))
            ELSE Injected(TRUE, node_data)

\* one pass of the loop of server.py:81-86 on a node whose "inputs" are a
\* mapping, a list or null: `in` on null raises, and so does the assignment
\* to a list that holds "text"
InjectNode(node_data, prompt_text) ==
  IF node_data.t # "dict" THEN Injected(FALSE, node_data)
  ELSE LET inputs == IF HasKey(node_data, "inputs") THEN Get(node_data, "inputs") ELSE EmptyDict
       IN CASE inputs.t = "dict" ->
                 IF HasKey(inputs, "text")
                   THEN Injected(FALSE, Put(node_data, "inputs",
                                            Put(inputs, "text", StrV(prompt_text))))
                   ELSE Injected(FALSE, node_data)
            [] inputs.t = "list" ->
                 Injected(\E i \in 1..Len(inputs.items) : inputs.items[i] = StrV("text"),
                          node_data)
            [] inputs.t = "null" -> Injected(TRUE, node_data)

\* the loop over workflow.items(): it ends at the first pass that raises,
\* the nodes before it changed, the others as they were
RECURSIVE InjectItems(_, _)
InjectItems(items, prompt_text) ==
  IF items = << >> THEN [exc |-> FALSE, items |-> << >>]
  ELSE LET r == InjectNode(Head(items)[2], prompt_text) IN
       IF r.exc THEN [exc |-> TRUE, items |-> items]
       ELSE LET rest == InjectItems(Tail(items), prompt_text) IN
            [exc |-> rest.exc, items |-> << <<Head(items)[1], r.val>> >> \o rest.items]

\* server.py:78-86: a template that is no mapping has no .items()
InjectText(workflow, prompt_text) ==
  IF prompt_text \in {NoneStr, ""} THEN Injected(FALSE, workflow)
  ELSE IF workflow.t # "dict" THEN Injected(TRUE, workflow)
  ELSE LET r == InjectItems(workflow.items, prompt_text) IN Injected(r.exc, Dict(r.items))

\* workflow_params as the caller passes it: None, a string that is no JSON,
\* or a string that parses to val
ParamsArg(kind, val) == [kind |-> kind, val |-> val]
NoParams == ParamsArg("none", NullV)
Override(node_id, key, value) == <<node_id, Dict(<< <<key, StrV(value)>> >>)>>
ParamArgs ==
  { NoParams,
    ParamsArg("invalid", NullV),
    ParamsArg("json", ListV(<< >>)),
    ParamsArg("json", Dict(<< Override("9", "seed", "7") >>)),
    ParamsArg("json", Dict(<< Override("2", "seed", "7") >>)),
    ParamsArg("json", Dict(<< Override("2", "cfg", "8") >>)),
    ParamsArg("json", Dict(<< Override("9", "text", "p"),
                              <<"1", Dict(<< <<"text", StrV("p")>>, <<"extra", StrV("x")>> >>)>> >>)),
    ParamsArg("json", Dict(<< Override("1", "text", "p"), Override("3", "seed", "7") >>)),
    ParamsArg("json", Dict(<< <<"2", NullV>> >>)) }

\* the loop body that makes the node an override names when the template
\* has none
ParamsEntryAdding(workflow, node_id, param_data) ==
  IF workflow.t # "dict" \/ param_data.t # "dict" THEN Injected(TRUE, workflow)
  ELSE LET node == IF HasKey(workflow, node_id) THEN Get(workflow, node_id)
                   ELSE Dict(<< <<"inputs", EmptyDict>> >>)
       IN IF node.t # "dict" \/ ~HasKey(node, "inputs") THEN Injected(TRUE, workflow)
          ELSE IF Get(node, "inputs").t # "dict" THEN Injected(TRUE, workflow)
          ELSE Injected(FALSE, Put(workflow, node_id,
                                   Put(node, "inputs", Update(Get(node, "inputs"), param_data))))

\* one pass of the loop of server.py:92-94 for an override that is a mapping
\* or null: workflow[node_id]["inputs"].update(param_data) raises for a node
\* that is no mapping or has no "inputs", for inputs that are no mapping,
\* and for null
ParamsEntry(workflow, node_id, param_data) ==
  CASE workflow.t = "dict" ->
         IF ~HasKey(workflow, node_id) THEN Injected(FALSE, workflow)
         ELSE LET node == Get(workflow, node_id) IN
              IF node.t # "dict" THEN Injected(TRUE, workflow)
              ELSE IF ~HasKey(node, "inputs") THEN Injected(TRUE, workflow)
              ELSE IF Get(node, "inputs").t # "dict" THEN Injected(TRUE, workflow)
              ELSE IF param_data.t # "dict" THEN Injected(TRUE, workflow)
              ELSE Injected(FALSE,
                     Put(workflow, node_id,
                         Put(node, "inputs", Update(Get(node, "inputs"), param_data))))
    [] workflow.t = "list" ->
         Injected(\E i \in 1..Len(workflow.items) : workflow.items[i] = StrV(node_id), workflow)
    [] workflow.t = "null" -> Injected(TRUE, workflow)

\* the loop over params.items(), ended by the first pass that raises
RECURSIVE ParamsItems(_, _)
ParamsItems(workflow, entries) ==
  IF entries = << >> THEN Injected(FALSE, workflow)
  ELSE LET r == ParamsEntry(workflow, Head(entries)[1], Head(entries)[2]) IN
       IF r.exc THEN r ELSE ParamsItems(r.val, Tail(entries))

\* an injection that takes a string that is no JSON for no parameters
InjectParamsLenient(workflow, arg) ==
  IF arg.kind \in {"none", "invalid"} THEN Injected(FALSE, workflow)
  ELSE IF arg.val.t # "dict" THEN Injected(TRUE, workflow)
  ELSE ParamsItems(workflow, arg.val.items)

\* server.py:88-94: json.loads raises for a string that is no JSON, and a
\* parsed value that is no mapping has no .items()
InjectParams(workflow, arg) ==
  IF arg.kind = "none" THEN Injected(FALSE, workflow)
  ELSE IF arg.kind = "invalid" THEN Injected(TRUE, workflow)
  ELSE IF arg.val.t # "dict" THEN Injected(TRUE, workflow)
  ELSE ParamsItems(workflow, arg.val.items)

\* ------------------------------------------------------ backend answers
\* the prompt id the backend issues, and another prompt's id
ThePid == "p1"
OtherPid == "p0"

fA == File("a.wav", "")
fB == File("b.wav", "sub")
fA2 == File("a.wav", "sub")
fI == File("i.png", "")
\* a list entry without a "filename" key
fNone == File(NoneStr, "")

\* "outputs" sections: one audio file; an image, two audio files and a node
\* of an unknown kind; one name in two subfolders; an entry without a name
Out1 == << <<"n1", NodeOut({"audio"}, << >>, <<fA>>)>> >>
Out3 == << <<"n1", NodeOut({"images", "audio"}, <<fI>>, <<fA>>)>>,
           <<"n2", NodeOut({"text"}, << >>, << >>)>>,
           <<"n3", NodeOut({"audio"}, << >>, <<fB>>)>> >>
OutSameName == << <<"n1", NodeOut({"audio"}, << >>, <<fA, fA2>>)>> >>
OutNoName == << <<"n1", NodeOut({"audio"}, << >>, <<fNone, fB>>)>> >>
\* one image and one audio entry; a node with a list of a kind that is
\* neither, beside its audio, and a node with such a list only
Out2 == << <<"n1", NodeOut({"images", "audio"}, <<fI>>, <<fA>>)>> >>
OutOtherKinds == << <<"n1", NodeOut({"latent"}, << >>, << >>)>>,
                    <<"n2", NodeOut({"audio", "gifs"}, << >>, <<fB>>)>> >>

\* answers to GET /history/<id> that a poll can meet
PollResps ==
  { Resp("transport_error", NullBody),
    Resp("http_error", Dict(<< <<ThePid, Entry(TRUE, Out1)>> >>)),
    Resp("ok", NullBody),
    Resp("ok", EmptyDict),
    Resp("ok", Dict(<< <<OtherPid, Entry(TRUE, Out1)>> >>)),
    Resp("ok", Dict(<< <<ThePid, NullEntry>> >>)),
    Resp("ok", Dict(<< <<ThePid, Entry(FALSE, << >>)>> >>)),
    Resp("ok", Dict(<< <<ThePid, Entry(TRUE, Out1)>> >>)) }

\* answers that get_output_files can meet
HistoryResps ==
  PollResps \cup
  { Resp("ok", Dict(<< <<ThePid, Entry(TRUE, << >>)>> >>)),
    Resp("ok", Dict(<< <<OtherPid, Entry(TRUE, Out1)>>, <<ThePid, Entry(TRUE, Out3)>> >>)),
    Resp("ok", Dict(<< <<ThePid, Entry(TRUE, OutSameName)>> >>)),
    Resp("ok", Dict(<< <<ThePid, Entry(TRUE, OutNoName)>> >>)),
    Resp("ok", Dict(<< <<ThePid, Entry(TRUE, Out2)>> >>)),
    Resp("ok", Dict(<< <<ThePid, Entry(TRUE, OutOtherKinds)>> >>)) }

\* answers to POST /prompt
PromptBody(has_pid, pid) == [t |-> "dict", has_pid |-> has_pid, pid |-> pid]
PromptResps ==
  { Resp("transport_error", [t |-> "null", has_pid |-> FALSE, pid |-> NullV]),
    Resp("http_error", PromptBody(TRUE, StrV(ThePid))),
    Resp("ok", [t |-> "null", has_pid |-> FALSE, pid |-> NullV]),
    Resp("ok", PromptBody(FALSE, NullV)),
    Resp("ok", PromptBody(TRUE, NullV)),
    Resp("ok", PromptBody(TRUE, StrV(""))),
    Resp("ok", PromptBody(TRUE, StrV(ThePid))) }

\* what the answer itself says, whatever the client makes of it
RespFailed(resp) == resp.status # "ok"
RespHasOutputs(resp, pid) ==
  /\ resp.status = "ok"
  /\ resp.body.t = "dict"
  /\ \E i \in 1..Len(resp.body.items) :
        /\ resp.body.items[i][1] = pid
        /\ resp.body.items[i][2].t = "dict"
        /\ resp.body.items[i][2].hasOutputs

\* ------------------------------------------------------------------ state
VARIABLES
  pc,            \* where the call stands
  now,           \* the wall clock, in seconds
  start_time,    \* wait_for_completion's start_time
  max_wait,      \* its max_wait
  poll_interval, \* its poll_interval
  prompt_id,     \* the id queue_prompt returned
  completed,     \* what wait_for_completion did: pending, true, false, raised
  returnTime,    \* the clock when it returned
  nPolls,        \* history requests it made
  nFailedPolls,  \* those that failed (transport error or non-2xx)
  sawOutputs,    \* some poll's answer held the record with "outputs"
  lastPoll,      \* its last poll: start, end, answer
  nHealth,       \* health probes sent
  probe,         \* the latest probe: adapter, answer, what check_health gave
  nPost,         \* POST /prompt requests sent
  nOutReq,       \* history requests sent by get_output_files
  hasPath,       \* a workflow path is given or configured
  workflow_path,   \* the caller's workflow_path ("" for None)
  configured_path, \* COMFYUI_WORKFLOW_PATH
  wfFile,          \* the file at the workflow path
  prompt_text,     \* the caller's prompt_text
  workflow_params, \* the caller's workflow_params
  loaded,          \* what load_workflow gave
  textInjected,    \* the template as the injection of prompt_text left it
  workflow,        \* execute_workflow's workflow, as it now is
  postResp,      \* the answer to POST /prompt
  queued,        \* what queue_prompt made of it: a prompt id, or an exception
  outResp,       \* the answer get_output_files met
  output_files,  \* the descriptors it returned
  attempted,     \* the descriptors a download was requested for, in order
  failedPasses,  \* passes of the download loop whose download or write failed
  saved_files,   \* execute_workflow's saved_files
  fs,            \* the file system: path -> content
  result,        \* the tool's result: kind and context
  nCalls,        \* calls of the synchronous tools so far
  lastCall,      \* the latest of them: tool, input, requests, paths, result
  overwrites,    \* writes that replaced a file an earlier call had saved
  jobStatus,     \* the status the backend gave for the job of the latest call
  lastStems,     \* the stems its result listed, those asked for, those that failed
  train          \* a call of train_model: its files, those opened and closed, its end

vars == <<pc, now, start_time, max_wait, poll_interval, prompt_id, completed,
          returnTime, nPolls, nFailedPolls, sawOutputs, lastPoll, nHealth, probe,
          nPost, nOutReq, hasPath, postResp, queued, outResp, output_files, attempted,
          failedPasses, saved_files, fs,
          result, nCalls, lastCall, overwrites, jobStatus, lastStems, train,
          workflow_path, configured_path, wfFile, prompt_text, workflow_params,
          loaded, textInjected, workflow>>

inputVars == <<workflow_path, configured_path, wfFile, prompt_text, workflow_params>>
templateVars == <<loaded, textInjected, workflow>>

waitVars == <<now, completed, returnTime, nPolls, nFailedPolls, sawOutputs, lastPoll>>
toolVars == <<nCalls, lastCall, overwrites, jobStatus, lastStems>>
waitResults == <<completed, returnTime, nPolls, nFailedPolls, sawOutputs, lastPoll>>
execVars == <<nHealth, probe, nPost, nOutReq, postResp, queued, outResp, output_files,
              attempted, failedPasses, saved_files, fs, result>>

NoResp == Resp("none", NullBody)
NoPost == Resp("none", [t |-> "null", has_pid |-> FALSE, pid |-> NullV])
NoPoll == [start |-> 0, end |-> 0, resp |-> NoResp]
NoJob == "none"
NoTrain == [files |-> << >>, post |-> "none", opened |-> {}, closed |-> {}, bound |-> FALSE,
            raised |-> "none", returned |-> FALSE]
NoStems == [listed |-> {}, extract |-> {}, failing |-> {}]
NoCall == [tool |-> "none", input |-> << >>, at |-> 0, reqs |-> << >>, paths |-> << >>, result |-> "none"]
NoResult == [kind |-> "none", context |-> ""]
EmptyFs == [p \in {} |-> ""]

\* the file system after a write of content c to path p
Write(f, p, c) == [q \in DOMAIN f \cup {p} |-> IF q = p THEN c ELSE f[q]]

\* ------------------------------------------- wait_for_completion, by steps
\* the iteration with a second look at the clock once the answer is in: a
\* success that arrives at or after the deadline is dropped
WaitPollRecheck ==
  \E resp \in PollResps, d \in 0..MaxReqTime :
    /\ pc = "wait"
    /\ LoopCond(now, start_time, max_wait)
    /\ nPolls < MaxPolls
    /\ LET done == now + d
           step == IF LoopCond(done, start_time, max_wait)
                     THEN PollStep(resp, prompt_id) ELSE "return_false"
       IN /\ nPolls' = nPolls + 1
          /\ nFailedPolls' = nFailedPolls + (IF RespFailed(resp) THEN 1 ELSE 0)
          /\ sawOutputs' = (sawOutputs \/ RespHasOutputs(resp, prompt_id))
          /\ lastPoll' = [start |-> now, end |-> done, resp |-> resp]
          /\ now' = IF step = "sleep" THEN done + poll_interval ELSE done
          /\ completed' = IF step = "return_true" THEN "true"
                          ELSE IF step = "sleep" THEN "pending" ELSE "false"
          /\ pc' = IF step = "sleep" THEN "wait" ELSE "after_wait"
          /\ returnTime' = IF step = "sleep" THEN returnTime ELSE done
    /\ UNCHANGED <<start_time, max_wait, poll_interval, prompt_id, hasPath>>
    /\ UNCHANGED <<inputVars, templateVars, train>>
    /\ UNCHANGED toolVars
    /\ UNCHANGED execVars

\* one iteration of the loop of client.py:162-174: the condition held, the
\* history request took d seconds and was answered by resp; a sleep of
\* poll_interval follows unless the iteration returned
WaitPoll ==
  \E resp \in PollResps, d \in 0..MaxReqTime :
    /\ pc = "wait"
    /\ LoopCond(now, start_time, max_wait)
    /\ nPolls < MaxPolls
    /\ LET step == PollStep(resp, prompt_id)
           done == now + d
       IN /\ nPolls' = nPolls + 1
          /\ nFailedPolls' = nFailedPolls + (IF RespFailed(resp) THEN 1 ELSE 0)
          /\ sawOutputs' = (sawOutputs \/ RespHasOutputs(resp, prompt_id))
          /\ lastPoll' = [start |-> now, end |-> done, resp |-> resp]
          /\ now' = IF step = "sleep" THEN done + poll_interval ELSE done
          /\ completed' = CASE step = "return_true"  -> "true"
                            [] step = "sleep"        -> "pending"
                            [] step = "return_false" -> "false"
                            [] OTHER                 -> "raised"
          /\ pc' = IF step = "sleep" THEN "wait" ELSE "after_wait"
          /\ returnTime' = IF step = "sleep" THEN returnTime ELSE done
    /\ UNCHANGED <<start_time, max_wait, poll_interval, prompt_id, hasPath>>
    /\ UNCHANGED <<inputVars, templateVars, train>>
    /\ UNCHANGED toolVars
    /\ UNCHANGED execVars

\* the loop condition fails: client.py:176-177, return False
WaitTimeout ==
  /\ pc = "wait"
  /\ ~LoopCond(now, start_time, max_wait)
  /\ completed' = "false"
  /\ returnTime' = now
  /\ pc' = "after_wait"
  /\ UNCHANGED <<now, nPolls, nFailedPolls, sawOutputs, lastPoll>>
  /\ UNCHANGED <<start_time, max_wait, poll_interval, prompt_id, hasPath>>
  /\ UNCHANGED <<inputVars, templateVars, train>>
  /\ UNCHANGED toolVars
  /\ UNCHANGED execVars

\* --------------------------------------- comfyui_mcp/server.py, by steps
OutDir == "out"
\* output_path / file_info["filename"] (server.py:131)
SavePath(file_info) == <<OutDir, file_info.filename>>
\* the bytes the backend serves for a descriptor
Bytes(file_info) == [name |-> file_info.filename, sub |-> file_info.subfolder, whole |-> TRUE]
Partial(file_info) == [name |-> file_info.filename, sub |-> file_info.subfolder, whole |-> FALSE]

\* a tool that reports a caught exception with the message of the timeout
FinishAsTimeout(kind, context) ==
  [kind |-> IF kind = "exception" THEN "timeout" ELSE kind, context |-> context]

Finish(kind, context) == [kind |-> kind, context |-> context]

\* server.py:60-72: the health probe, then the workflow path
ExecHealth ==
  \E answer \in HealthAnswers :
    /\ pc = "health"
    /\ nHealth' = nHealth + 1
    /\ probe' = Probe("comfyui", answer)
    /\ IF ProbeOutcome(answer) = "raised"
         THEN /\ result' = Finish("raised", "check_health")
              /\ pc' = "done"
       ELSE IF ProbeOutcome(answer) = "unhealthy"
         THEN /\ result' = Finish("connect_error", "")
              /\ pc' = "done"
       ELSE IF ~hasPath THEN /\ result' = Finish("no_path", "")
                             /\ pc' = "done"
       ELSE /\ result' = result
            /\ pc' = "submit"
    /\ UNCHANGED <<start_time, max_wait, poll_interval, prompt_id, hasPath>>
    /\ UNCHANGED <<inputVars, templateVars, train>>
    /\ UNCHANGED toolVars
    /\ UNCHANGED waitVars
    /\ UNCHANGED <<nPost, nOutReq, postResp, queued, outResp, output_files, attempted,
                   failedPasses, saved_files, fs>>

\* server.py:74-101: load the workflow, queue it, enter wait_for_completion
\* (client.py:160 reads the clock)
ExecSubmit ==
  \E load_ok \in BOOLEAN, resp \in PromptResps :
    /\ pc = "submit"
    /\ IF ~load_ok
         THEN /\ result' = Finish("exception", "Failed to load workflow")
              /\ pc' = "done"
              /\ UNCHANGED <<nPost, postResp, queued, prompt_id, start_time>>
         ELSE LET q == QueuePrompt(resp) IN
              /\ nPost' = nPost + 1
              /\ postResp' = resp
              /\ queued' = q
              /\ IF q.exc
                   THEN /\ result' = Finish("exception", q.context)
                        /\ pc' = "done"
                        /\ UNCHANGED <<prompt_id, start_time>>
                   ELSE /\ prompt_id' = q.val.s
                        /\ start_time' = now
                        /\ pc' = "wait"
                        /\ result' = result
    /\ UNCHANGED <<max_wait, poll_interval, hasPath>>
    /\ UNCHANGED <<inputVars, templateVars, train>>
    /\ UNCHANGED toolVars
    /\ UNCHANGED waitVars
    /\ UNCHANGED <<nHealth, probe, nOutReq, outResp, output_files, attempted, failedPasses,
                   saved_files, fs>>

\* server.py:101-107 without the test of `completed`: the call goes on to
\* the outputs whatever wait_for_completion returned
ExecAfterWaitUnchecked ==
  /\ pc = "after_wait"
  /\ pc' = "outputs"
  /\ result' = result
  /\ UNCHANGED <<start_time, max_wait, poll_interval, prompt_id, hasPath>>
  /\ UNCHANGED <<inputVars, templateVars, train>>
  /\ UNCHANGED toolVars
  /\ UNCHANGED waitVars
  /\ UNCHANGED <<nHealth, probe, nPost, nOutReq, postResp, queued, outResp, output_files, 
                 attempted,                 failedPasses, saved_files, fs>>

\* server.py:101-107: wait_for_completion has returned (or raised, which the
\* except clause of server.py:152 turns into an error result)
ExecAfterWait ==
  /\ pc = "after_wait"
  /\ IF completed = "true" THEN /\ pc' = "outputs"
                                /\ result' = result
     ELSE IF completed = "false" THEN /\ pc' = "done"
                                      /\ result' = Finish("timeout", "")
     ELSE /\ pc' = "done"
          /\ result' = Finish("exception", "")
  /\ UNCHANGED <<start_time, max_wait, poll_interval, prompt_id, hasPath>>
  /\ UNCHANGED <<inputVars, templateVars, train>>
  /\ UNCHANGED toolVars
  /\ UNCHANGED waitVars
  /\ UNCHANGED <<nHealth, probe, nPost, nOutReq, postResp, queued, outResp, output_files, 
                 attempted,                 failedPasses, saved_files, fs>>

\* server.py:110-120: get_output_files (one more history request), then mkdir
ExecGetOutputs ==
  \E resp \in HistoryResps, mkdir_ok \in BOOLEAN :
    /\ pc = "outputs"
    /\ nOutReq' = nOutReq + 1
    /\ outResp' = resp
    /\ LET got == GetOutputFiles(GetHistory(resp), prompt_id)
           files == got.files
       IN
       /\ output_files' = files
       /\ IF got.exc THEN /\ result' = Finish("exception", "get_output_files")
                           /\ pc' = "done"
          ELSE IF files = << >> THEN /\ result' = Finish("no_outputs", "")
                                     /\ pc' = "done"
          ELSE IF ~mkdir_ok THEN /\ result' = Finish("exception", "mkdir")
                                 /\ pc' = "done"
          ELSE /\ result' = result
               /\ pc' = "download"
    /\ UNCHANGED <<start_time, max_wait, poll_interval, prompt_id, hasPath>>
    /\ UNCHANGED <<inputVars, templateVars, train>>
    /\ UNCHANGED toolVars
    /\ UNCHANGED waitVars
    /\ UNCHANGED <<nHealth, probe, nPost, postResp, queued, attempted, failedPasses,
                   saved_files, fs>>

\* what one pass of the loop body does to the file system and the saved
\* list (server.py:124-138); an entry without a name cannot be saved
Outcomes == {"ok", "download_fail", "write_fail"}
PassOutcome(file_info, outcome) ==
  IF file_info.filename = NoneStr /\ outcome = "ok" THEN "download_fail" ELSE outcome
\* the append of server.py:135 moved out of the try block
SavedAfterAlways(saved, file_info, outcome) == Append(saved, SavePath(file_info))
SavedAfter(saved, file_info, outcome) ==
  IF outcome = "ok" THEN Append(saved, SavePath(file_info)) ELSE saved
FsAfter(f, file_info, outcome) ==
  CASE outcome = "ok"         -> Write(f, SavePath(file_info), Bytes(file_info))
    [] outcome = "write_fail" -> Write(f, SavePath(file_info), Partial(file_info))
    [] OTHER                  -> f

\* server.py:123-150: one pass of the download loop; after the last pass,
\* the result
ExecDownload ==
  \E o \in Outcomes :
    /\ pc = "download"
    /\ Len(attempted) < Len(output_files)
    /\ LET file_info == output_files[Len(attempted) + 1]
           outcome == PassOutcome(file_info, o)
           saved == SavedAfter(saved_files, file_info, outcome)
       IN /\ attempted' = Append(attempted, file_info)
          /\ saved_files' = saved
          /\ failedPasses' = failedPasses + (IF outcome = "ok" THEN 0 ELSE 1)
          /\ fs' = FsAfter(fs, file_info, outcome)
          /\ IF Len(attempted) + 1 = Len(output_files)
               THEN /\ pc' = "done"
                    /\ result' = IF saved # << >> THEN Finish("success", "")
                                 ELSE Finish("download_failed", "")
               ELSE /\ pc' = "download"
                    /\ result' = result
    /\ UNCHANGED <<start_time, max_wait, poll_interval, prompt_id, hasPath>>
    /\ UNCHANGED <<inputVars, templateVars, train>>
    /\ UNCHANGED toolVars
    /\ UNCHANGED waitVars
    /\ UNCHANGED <<nHealth, probe, nPost, nOutReq, postResp, queued, outResp, output_files>>

\* ------------------------------------------------------- specifications
InitCommon ==
  /\ completed = "pending"
  /\ returnTime = 0
  /\ nPolls = 0
  /\ nFailedPolls = 0
  /\ sawOutputs = FALSE
  /\ lastPoll = NoPoll
  /\ nHealth = 0
  /\ probe = NoProbe
  /\ nPost = 0
  /\ nOutReq = 0
  /\ postResp = NoPost
  /\ queued = Return(NullV)
  /\ outResp = NoResp
  /\ output_files = << >>
  /\ attempted = << >>
  /\ failedPasses = 0
  /\ saved_files = << >>
  /\ fs = EmptyFs
  /\ result = NoResult
  /\ nCalls = 0
  /\ lastCall = NoCall
  /\ overwrites = {}
  /\ jobStatus = NoJob
  /\ lastStems = NoStems
  /\ loaded = NotLoaded
  /\ textInjected = NullV
  /\ workflow = NullV

\* the paths a caller passes and the environment configures ("" for none),
\* and server.py:67: wf_path = workflow_path or COMFYUI_WORKFLOW_PATH
WorkflowPaths == {"", "a.json"}
ConfiguredPaths == {"", "env.json"}
WfPath(given, configured) == IF given # "" THEN given ELSE configured

\* where the template's loading and injection are one step of the call
TemplateNotModelled ==
  /\ wfFile = NoFile
  /\ prompt_text = NoneStr
  /\ workflow_params = NoParams

\* execute_workflow is called: max_wait is the caller's, poll_interval the
\* default of client.py:148
Init ==
  /\ pc = "health"
  /\ now \in 0..MaxStart
  /\ start_time = 0
  /\ max_wait \in (-1)..MaxWait
  /\ poll_interval = DefaultPollInterval
  /\ prompt_id = ""
  /\ workflow_path \in WorkflowPaths
  /\ configured_path \in ConfiguredPaths
  /\ hasPath = (WfPath(workflow_path, configured_path) # "")
  /\ TemplateNotModelled
  /\ train = NoTrain
  /\ InitCommon

Next ==
  \/ ExecHealth
  \/ ExecSubmit
  \/ WaitPoll
  \/ WaitTimeout
  \/ ExecAfterWait
  \/ ExecGetOutputs
  \/ ExecDownload

Spec == Init /\ [][Next]_vars

\* wait_for_completion is called directly
InitWait ==
  /\ pc = "wait"
  /\ now \in 0..MaxStart
  /\ start_time = now
  /\ max_wait \in (-1)..MaxWait
  /\ poll_interval \in 0..MaxPoll
  /\ prompt_id = ThePid
  /\ hasPath = TRUE
  /\ workflow_path = "a.json"
  /\ configured_path = ""
  /\ TemplateNotModelled
  /\ train = NoTrain
  /\ InitCommon

NextWait ==
  \/ WaitPoll
  \/ WaitTimeout

SpecWait == InitWait /\ [][NextWait]_vars

\* ---------------- execute_workflow from the path to the submission, by steps
\* server.py:66-76: the path, then load_workflow
InjLoad ==
  /\ pc = "load"
  /\ LET wf_path == WfPath(workflow_path, configured_path) IN
     IF wf_path = ""
       THEN /\ result' = Finish("no_path", "")
            /\ pc' = "done"
            /\ UNCHANGED templateVars
       ELSE LET l == LoadWorkflow(wf_path, wfFile) IN
            /\ loaded' = l
            /\ textInjected' = textInjected
            /\ IF l.exc THEN /\ result' = Finish("exception", "Failed to load workflow")
                              /\ pc' = "done"
                              /\ workflow' = workflow
               ELSE /\ result' = result
                    /\ pc' = "inject_text"
                    /\ workflow' = l.val
  /\ UNCHANGED <<now, start_time, max_wait, poll_interval, prompt_id, hasPath>>
  /\ UNCHANGED <<inputVars, train>>
  /\ UNCHANGED waitResults
  /\ UNCHANGED toolVars
  /\ UNCHANGED <<nHealth, probe, nPost, nOutReq, postResp, queued, outResp, output_files,
                 attempted, failedPasses, saved_files, fs>>

\* server.py:78-86: prompt_text goes into the template
InjText ==
  /\ pc = "inject_text"
  /\ LET r == InjectText(workflow, prompt_text) IN
     /\ workflow' = r.val
     /\ textInjected' = r.val
     /\ IF r.exc THEN /\ result' = Finish("exception", "prompt_text")
                       /\ pc' = "done"
        ELSE /\ result' = result
             /\ pc' = "inject_params"
  /\ loaded' = loaded
  /\ UNCHANGED <<now, start_time, max_wait, poll_interval, prompt_id, hasPath>>
  /\ UNCHANGED <<inputVars, train>>
  /\ UNCHANGED waitResults
  /\ UNCHANGED toolVars
  /\ UNCHANGED <<nHealth, probe, nPost, nOutReq, postResp, queued, outResp, output_files,
                 attempted, failedPasses, saved_files, fs>>

\* server.py:88-94: workflow_params go into the template, which
\* queue_prompt (server.py:97) is then called with
InjParams ==
  /\ pc = "inject_params"
  /\ LET r == InjectParams(workflow, workflow_params) IN
     /\ workflow' = r.val
     /\ IF r.exc THEN /\ result' = Finish("exception", "workflow_params")
                       /\ pc' = "done"
        ELSE /\ result' = result
             /\ pc' = "queue"
  /\ UNCHANGED <<loaded, textInjected>>
  /\ UNCHANGED <<now, start_time, max_wait, poll_interval, prompt_id, hasPath>>
  /\ UNCHANGED <<inputVars, train>>
  /\ UNCHANGED waitResults
  /\ UNCHANGED toolVars
  /\ UNCHANGED <<nHealth, probe, nPost, nOutReq, postResp, queued, outResp, output_files,
                 attempted, failedPasses, saved_files, fs>>

\* server.py:97: queue_prompt is called with the template
InjQueue ==
  \E resp \in PromptResps :
    /\ pc = "queue"
    /\ nPost' = nPost + 1
    /\ postResp' = resp
    /\ LET q == QueuePrompt(resp) IN
       /\ queued' = q
       /\ IF q.exc THEN /\ result' = Finish("exception", q.context)
                         /\ pc' = "done"
                         /\ prompt_id' = prompt_id
          ELSE /\ result' = result
               /\ pc' = "submitted"
               /\ prompt_id' = q.val.s
    /\ UNCHANGED <<now, start_time, max_wait, poll_interval, hasPath>>
    /\ UNCHANGED <<inputVars, templateVars, train>>
    /\ UNCHANGED waitResults
    /\ UNCHANGED toolVars
    /\ UNCHANGED <<nHealth, probe, nOutReq, outResp, output_files, attempted, failedPasses,
                   saved_files, fs>>

\* execute_workflow has found the server healthy
InitInject ==
  /\ pc = "load"
  /\ now = 0
  /\ start_time = 0
  /\ max_wait = 0
  /\ poll_interval = DefaultPollInterval
  /\ prompt_id = ""
  /\ workflow_path \in WorkflowPaths
  /\ configured_path \in ConfiguredPaths
  /\ hasPath = (WfPath(workflow_path, configured_path) # "")
  /\ wfFile \in WorkflowFiles
  /\ prompt_text \in PromptTexts
  /\ workflow_params \in ParamArgs
  /\ train = NoTrain
  /\ InitCommon

NextInject ==
  \/ InjLoad
  \/ InjText
  \/ InjParams
  \/ InjQueue

SpecInject == InitInject /\ [][NextInject]_vars

\* ------------------------------------------------- localai_mcp/utils.py
\* characters, by the classes the two regular expressions tell apart
WordChars == {"a", "b", "_"}
SpaceChars == {" "}
DashChar == "-"
\* utils.py:42 keeps [\w\s-]
Kept(c) == c \in WordChars \cup SpaceChars \cup {DashChar}
\* utils.py:43 replaces each run of [-\s]
Sep(c) == c \in SpaceChars \cup {DashChar}
\* the slice [:30] of utils.py:42
SliceLen == 30
Slice(str, n) == SubSeq(str, 1, IF Len(str) < n THEN Len(str) ELSE n)

\* re.sub(r'[-\s]+', '_', s): every maximal run becomes one underscore
RECURSIVE Collapse(_)
Collapse(str) ==
  IF str = << >> THEN << >>
  ELSE IF Sep(Head(str))
         THEN IF Len(str) > 1 /\ Sep(str[2]) THEN Collapse(Tail(str))
              ELSE <<"_">> \o Collapse(Tail(str))
         ELSE <<Head(str)>> \o Collapse(Tail(str))

\* str.strip('_')
RECURSIVE LStrip(_)
LStrip(str) == IF str # << >> /\ Head(str) = "_" THEN LStrip(Tail(str)) ELSE str
RECURSIVE RStrip(_)
RStrip(str) ==
  IF str # << >> /\ str[Len(str)] = "_" THEN RStrip(SubSeq(str, 1, Len(str) - 1)) ELSE str
Strip(str) == RStrip(LStrip(str))

\* utils.py:42-43
SafeContent(content) ==
  Strip(Collapse(Slice(SelectSeq(content, Kept), SliceLen)))

\* utils.py:39: the clock (in ticks) formatted to the second
Timestamp(t) == t \div TicksPerSecond

\* make_output_file (utils.py:25-51): the name's parts, joined by "_" and "."
MakeOutputFile(prefix, content, extension, t) ==
  IF SafeContent(content) # << >>
    THEN <<prefix, SafeContent(content), Timestamp(t), extension>>
    ELSE <<prefix, Timestamp(t), extension>>

\* texts a caller passes: plain, with a special character, with separators,
\* special characters only, longer than the slice, and empty
LongText == [i \in 1..(SliceLen + 1) |-> "a"]
Texts == { <<"a">>, <<"a", "!">>, <<"a", " ", "-", "b">>, <<"!">>, LongText }
NoText == << >>

\* what a synchronous tool writes: the bytes of the answer to this call
SyncBytes(n, tool, input) == [call |-> n, tool |-> tool, input |-> input, whole |-> TRUE]
SyncPartial(n, tool, input) == [call |-> n, tool |-> tool, input |-> input, whole |-> FALSE]

Call(tool, input, t, reqs, paths, kind) ==
  [tool |-> tool, input |-> input, at |-> t, reqs |-> reqs, paths |-> paths, result |-> kind]

\* open(path, "wb") on each of paths by a call (tool, input): the files among
\* them that an earlier call had saved whole are replaced
Replaced(f, paths, tool, input) ==
  { [path |-> p, tool |-> tool, input |-> input,
     wasTool |-> f[p].tool, wasInput |-> f[p].input] :
      p \in {q \in paths : q \in DOMAIN f /\ f[q].whole} }

\* a tool that posts one request and writes the answer to one file:
\* health probe, request, mkdir, open and write, each of which can fail
\* (localai_mcp/server.py:70-104, 200-235; rvc_mcp/server.py:67-109)
SyncOutcomes == {"unhealthy", "post_fail", "mkdir_fail", "write_fail", "ok"}
\* how the call goes, given what the probe met: the steps after the probe
\* are reached only when check_health returned True
AfterProbe(answer, outcome) ==
  IF ProbeOutcome(answer) = "healthy" THEN outcome ELSE ProbeOutcome(answer)
Agree(answer, outcome) == (outcome = "unhealthy") <=> (ProbeOutcome(answer) = "unhealthy")
\* a tool that asks for the job's status after its submission
SyncReqsPolling(outcome, req) ==
  IF outcome \in {"unhealthy", "raised"} THEN <<"health">>
  ELSE IF outcome = "post_fail" THEN <<"health", req>>
  ELSE <<"health", req, "result">>

SyncReqs(outcome, req) ==
  IF outcome \in {"unhealthy", "raised"} THEN <<"health">> ELSE <<"health", req>>
\* a tool whose output directory is made outside its try block
SyncResultEscaping(outcome) ==
  CASE outcome = "unhealthy"  -> "connect_error"
    [] outcome = "ok"         -> "success"
    [] outcome \in {"raised", "mkdir_fail"} -> "raised"
    [] OTHER                  -> "exception"

SyncResult(outcome) ==
  CASE outcome = "unhealthy" -> "connect_error"
    [] outcome = "raised"    -> "raised"
    [] outcome = "ok"        -> "success"
    [] OTHER                 -> "exception"
SyncOpens(path, outcome) == IF outcome \in {"ok", "write_fail"} THEN {path} ELSE {}
SyncFs(f, path, outcome, n, tool, input) ==
  CASE outcome = "ok"         -> Write(f, path, SyncBytes(n, tool, input))
    [] outcome = "write_fail" -> Write(f, path, SyncPartial(n, tool, input))
    [] OTHER                  -> f

\* the servers' tools are called one after another ("tools", MaxCalls calls
\* followed) or once ("tool")
ToolModes == {"tools", "tool"}
CallLimit == IF pc = "tool" THEN 1 ELSE MaxCalls

\* the whole of such a tool's call, once its input is found valid
SyncCall(adapter, answer, tool, input, req, path, outcome) ==
  /\ nCalls' = nCalls + 1
  /\ probe' = Probe(adapter, answer)
  /\ lastCall' = Call(tool, input, now, SyncReqs(outcome, req),
                      IF outcome = "ok" THEN <<path>> ELSE << >>, SyncResult(outcome))
  /\ overwrites' = overwrites \cup Replaced(fs, SyncOpens(path, outcome), tool, input)
  /\ fs' = SyncFs(fs, path, outcome, nCalls + 1, tool, input)

\* a call that ends before any file is opened
EarlyReturn(probed, tool, input, reqs, kind) ==
  /\ nCalls' = nCalls + 1
  /\ probe' = probed
  /\ lastCall' = Call(tool, input, now, reqs, << >>, kind)
  /\ UNCHANGED <<overwrites, fs>>

\* ------------------------------------------------ localai_mcp/server.py
\* text_to_speech (server.py:58-104)
TtsFile(text, response_format, t) == MakeOutputFile("localai_tts", text, response_format, t)
TextToSpeech ==
  \E text \in Texts \cup {NoText}, answer \in HealthAnswers, outcome \in SyncOutcomes :
    /\ pc \in ToolModes
    /\ nCalls < CallLimit
    /\ Agree(answer, outcome)
    /\ IF text = NoText
         THEN EarlyReturn(probe, "text_to_speech", text, << >>, "text_required")
         ELSE SyncCall("localai", answer, "text_to_speech", text, "speech",
                       <<OutDir, TtsFile(text, "mp3", now)>>, AfterProbe(answer, outcome))
    /\ jobStatus' = NoJob
    /\ lastStems' = NoStems
    /\ UNCHANGED <<pc, now, start_time, max_wait, poll_interval, prompt_id, hasPath>>
    /\ UNCHANGED <<inputVars, templateVars, train>>
    /\ UNCHANGED waitResults
    /\ UNCHANGED <<nHealth, nPost, nOutReq, postResp, queued, outResp, output_files, attempted,
                 failedPasses, saved_files, result>>

\* generate_audio (server.py:187-235)
AudioFile(prompt, t) == MakeOutputFile("localai_audio", prompt, "wav", t)
GenerateAudio ==
  \E prompt \in Texts \cup {NoText}, answer \in HealthAnswers, outcome \in SyncOutcomes :
    /\ pc \in ToolModes
    /\ nCalls < CallLimit
    /\ Agree(answer, outcome)
    /\ IF prompt = NoText
         THEN EarlyReturn(probe, "generate_audio", prompt, << >>, "prompt_required")
         ELSE SyncCall("localai", answer, "generate_audio", prompt, "generate",
                       <<OutDir, AudioFile(prompt, now)>>, AfterProbe(answer, outcome))
    /\ jobStatus' = NoJob
    /\ lastStems' = NoStems
    /\ UNCHANGED <<pc, now, start_time, max_wait, poll_interval, prompt_id, hasPath>>
    /\ UNCHANGED <<inputVars, templateVars, train>>
    /\ UNCHANGED waitResults
    /\ UNCHANGED <<nHealth, nPost, nOutReq, postResp, queued, outResp, output_files, attempted,
                 failedPasses, saved_files, result>>

\* audio files a caller passes: two files of one stem in two directories
InputFiles == { [dir |-> "in", stem |-> "song", ext |-> "wav"],
                [dir |-> "in2", stem |-> "song", ext |-> "mp3"] }

\* speech_to_text (server.py:121-168): probe, the file's existence, one
\* request; the transcription is the result's text and no file is written
SttOutcomes == {"unhealthy", "post_fail", "ok"}
SpeechToText ==
  \E file \in InputFiles, exists \in BOOLEAN, answer \in HealthAnswers, outcome \in SttOutcomes :
    /\ pc \in ToolModes
    /\ nCalls < CallLimit
    /\ Agree(answer, outcome)
    /\ LET o == AfterProbe(answer, outcome)
           tool == "speech_to_text"
           probed == Probe("localai", answer)
       IN IF o \in {"unhealthy", "raised"}
            THEN EarlyReturn(probed, tool, file, <<"health">>, SyncResult(o))
          ELSE IF ~exists
            THEN EarlyReturn(probed, tool, file, <<"health">>, "file_not_found")
          ELSE EarlyReturn(probed, tool, file, <<"health", "transcriptions">>, SyncResult(o))
    /\ jobStatus' = NoJob
    /\ lastStems' = NoStems
    /\ UNCHANGED <<pc, now, start_time, max_wait, poll_interval, prompt_id, hasPath>>
    /\ UNCHANGED <<inputVars, templateVars, train>>
    /\ UNCHANGED waitResults
    /\ UNCHANGED <<nHealth, nPost, nOutReq, postResp, queued, outResp, output_files, attempted,
                 failedPasses, saved_files, result>>

\* wall-clock time passes between two calls
Tick ==
  /\ pc \in ToolModes
  /\ now < MaxClock
  /\ now' = now + 1
  /\ UNCHANGED <<pc, start_time, max_wait, poll_interval, prompt_id, hasPath>>
  /\ UNCHANGED <<inputVars, templateVars, train>>
  /\ UNCHANGED waitResults
  /\ UNCHANGED toolVars
  /\ UNCHANGED execVars

InitTools ==
  /\ pc = "tools"
  /\ now = 0
  /\ start_time = 0
  /\ max_wait = 0
  /\ poll_interval = DefaultPollInterval
  /\ prompt_id = ""
  /\ hasPath = TRUE
  /\ workflow_path = "a.json"
  /\ configured_path = ""
  /\ TemplateNotModelled
  /\ train = NoTrain
  /\ InitCommon

NextLocalAI ==
  \/ TextToSpeech
  \/ SpeechToText
  \/ GenerateAudio
  \/ Tick

SpecLocalAI == InitTools /\ [][NextLocalAI]_vars

\* ---------------------------------------------------- rvc_mcp/server.py
Models == {"m1", "m2"}

\* rvc_mcp/server.py:96-97: "{base_name}_rvc_{model_name}.{output_format}"
RvcFile(file, model_name, output_format) == <<file.stem, "rvc", model_name, output_format>>

\* convert_voice (rvc_mcp/server.py:55-109)
ConvertVoice ==
  \E file \in InputFiles, exists \in BOOLEAN, model_name \in Models,
     answer \in HealthAnswers, outcome \in SyncOutcomes :
    /\ pc \in ToolModes
    /\ nCalls < CallLimit
    /\ Agree(answer, outcome)
    /\ LET input == [file |-> file, model |-> model_name, format |-> "wav"]
           o == AfterProbe(answer, outcome)
       IN
       IF o \notin {"unhealthy", "raised"} /\ ~exists
         THEN EarlyReturn(Probe("rvc", answer), "convert_voice", input, <<"health">>,
                          "file_not_found")
         ELSE SyncCall("rvc", answer, "convert_voice", input, "convert",
                       <<OutDir, RvcFile(file, model_name, "wav")>>, o)
    /\ jobStatus' = NoJob
    /\ lastStems' = NoStems
    /\ UNCHANGED <<pc, now, start_time, max_wait, poll_interval, prompt_id, hasPath>>
    /\ UNCHANGED <<inputVars, templateVars, train>>
    /\ UNCHANGED waitResults
    /\ UNCHANGED <<nHealth, nPost, nOutReq, postResp, queued, outResp, output_files, attempted,
                 failedPasses, saved_files, result>>

\* --------------------------------------------------- uvr5_mcp/server.py
\* answers to POST /api/separate: a failure, a result with the stems inline,
\* or a job id; answers to GET /api/result/<id>: get_separation_result's
\* {"status": "error"} for a failure, or a status with the stems listed
StemSets == { {}, {"vocals", "instrumental"}, {"vocals", "drums"}, {"instrumental", "guitar"} }
SepAnswer(kind, stems) == [kind |-> kind, stems |-> stems]
NoAnswer == SepAnswer("none", {})

\* uvr5_mcp/server.py:112, 131: "{base_name}_{stem}.{output_format}"
StemFile(file, stem, output_format) == <<file.stem, stem, output_format>>

\* the stems separate_audio saves, in order (server.py:104-140): vocals,
\* then instrumental, each when asked for and listed in the result
StemOrder == <<"vocals", "instrumental">>
WantedStems(job_result, extract) ==
  SelectSeq(StemOrder, LAMBDA st : st \in extract /\ st \in job_result.stems)

\* one stem's try block (server.py:106-121, 125-140) for each wanted stem,
\* given the stems whose download or write fails: the paths saved
StemPaths(file, wanted, failing) ==
  LET ok == SelectSeq(wanted, LAMBDA st : st \notin failing)
  IN [i \in 1..Len(ok) |-> <<OutDir, StemFile(file, ok[i], "wav")>>]

RECURSIVE WriteAll(_, _, _)
WriteAll(f, paths, c) ==
  IF paths = << >> THEN f ELSE WriteAll(Write(f, Head(paths), c), Tail(paths), c)

Range(sq) == {sq[i] : i \in 1..Len(sq)}

\* how a call of separate_audio goes: where it ends, the two answers, the
\* stems asked for, the stems whose download fails
Run(stage, sep, res, extract, failing) ==
  [stage |-> stage, sep |-> sep, res |-> res, extract |-> extract, failing |-> failing]
Extracts == SUBSET {"vocals", "instrumental"}
JobResults ==
  {[sep |-> SepAnswer("inline", st), res |-> NoAnswer] : st \in StemSets}
    \cup {[sep |-> SepAnswer("job", {}), res |-> SepAnswer("completed", st)] : st \in StemSets}
SeparateRuns ==
  { Run("unhealthy", NoAnswer, NoAnswer, {}, {}),
    Run("no_file", NoAnswer, NoAnswer, {}, {}),
    Run("separate_fail", SepAnswer("fail", {}), NoAnswer, {}, {}) }
  \cup { Run("result", SepAnswer("job", {}), SepAnswer(k, {}), {}, {}) : k \in {"error", "processing"} }
  \cup { Run("mkdir_fail", j.sep, j.res, {}, {}) : j \in JobResults }
  \cup UNION { { Run("save", j.sep, j.res, ex, fl) : fl \in SUBSET ex } :
               j \in JobResults, ex \in Extracts }

\* the job of a call (server.py:81-86): none when the answer to the
\* submission has no job_id, else the status get_separation_result returned
JobStatus(sep, res) == IF sep.kind = "job" THEN res.kind ELSE NoJob

\* separate_audio (uvr5_mcp/server.py:52-156)
SeparateAudio ==
  \E file \in InputFiles, run \in SeparateRuns, answer \in HealthAnswers :
    /\ pc \in ToolModes
    /\ nCalls < CallLimit
    /\ (run.stage = "unhealthy") <=> (ProbeOutcome(answer) # "healthy")
    /\ LET input == [file |-> file, model |-> "UVR-MDX-NET-Inst_HQ_3", format |-> "wav"]
           tool == "separate_audio"
           isJob == run.sep.kind = "job"
           job_result == IF isJob THEN run.res ELSE run.sep
           wanted == WantedStems(job_result, run.extract)
           paths == StemPaths(file, wanted, run.failing)
           asked == <<"health", "separate">> \o (IF isJob THEN <<"result">> ELSE << >>)
           downloads == IF isJob THEN [i \in 1..Len(wanted) |-> "download"] ELSE << >>
           probed == Probe("uvr5", answer)
       IN CASE run.stage = "unhealthy" ->
                 EarlyReturn(probed, tool, input, <<"health">>,
                             IF ProbeOutcome(answer) = "raised" THEN "raised" ELSE "connect_error")
            [] run.stage = "no_file" ->
                 EarlyReturn(probed, tool, input, <<"health">>, "file_not_found")
            [] run.stage = "separate_fail" ->
                 EarlyReturn(probed, tool, input, <<"health", "separate">>, "exception")
            [] run.stage = "result" -> EarlyReturn(probed, tool, input, asked, "in_progress")
            [] run.stage = "mkdir_fail" -> EarlyReturn(probed, tool, input, asked, "exception")
            [] OTHER ->
                 /\ nCalls' = nCalls + 1
                 /\ probe' = probed
                 /\ lastCall' = Call(tool, input, now, asked \o downloads, paths,
                                     IF paths # << >> THEN "success" ELSE "no_stems")
                 /\ overwrites' = overwrites \cup Replaced(fs, Range(paths), tool, input)
                 /\ fs' = WriteAll(fs, paths, SyncBytes(nCalls + 1, tool, input))
    /\ jobStatus' = JobStatus(run.sep, run.res)
    /\ lastStems' = IF run.stage = "save"
                      THEN [listed |-> (IF run.sep.kind = "job" THEN run.res ELSE run.sep).stems,
                            extract |-> run.extract, failing |-> run.failing]
                      ELSE NoStems
    /\ UNCHANGED <<pc, now, start_time, max_wait, poll_interval, prompt_id, hasPath>>
    /\ UNCHANGED <<inputVars, templateVars, train>>
    /\ UNCHANGED waitResults
    /\ UNCHANGED <<nHealth, nPost, nOutReq, postResp, queued, outResp, output_files, attempted,
                 failedPasses, saved_files, result>>

NextStems ==
  \/ ConvertVoice
  \/ SeparateAudio
  \/ Tick

SpecStems == InitTools /\ [][NextStems]_vars

\* ---------------------------------------------------------- every tool
\* one call of a tool of the four servers: execute_workflow by steps, or a
\* tool of the three other servers
InitTool ==
  /\ pc = "tool"
  /\ now = 0
  /\ start_time = 0
  /\ max_wait = 0
  /\ poll_interval = DefaultPollInterval
  /\ prompt_id = ""
  /\ hasPath = TRUE
  /\ workflow_path = "a.json"
  /\ configured_path = ""
  /\ TemplateNotModelled
  /\ train = NoTrain
  /\ InitCommon

InitAdapters == Init \/ InitTool

NextAdapters ==
  \/ Next
  \/ NextLocalAI
  \/ NextStems

SpecAdapters == InitAdapters /\ [][NextAdapters]_vars

\* ------------------------------------- rvc_mcp/client.py, train_model
\* a call of train_model(model_name, training_files) by steps. files says of
\* each training file whether open(f, "rb") succeeds; post is what POST
\* /api/train meets; opened and closed are the files (by position) opened and
\* closed so far; bound says whether the local `files` has been assigned
FailedToTrain == "Failed to train model"
TrainUnchanged ==
  /\ UNCHANGED <<now, start_time, max_wait, poll_interval, prompt_id, hasPath>>
  /\ UNCHANGED <<inputVars, templateVars>>
  /\ UNCHANGED waitResults
  /\ UNCHANGED toolVars
  /\ UNCHANGED execVars

\* client.py:165-168: the list comprehension opens the files in order; an
\* open that fails leaves `files` unassigned and goes to the except clause
\* (client.py:183-185), which raises the 'Failed to train model' exception
TrainOpen ==
  /\ pc = "train_open"
  /\ LET i == Cardinality(train.opened) + 1 IN
     IF i > Len(train.files)
       THEN /\ train' = [train EXCEPT !.bound = TRUE]
            /\ pc' = "train_post"
     ELSE IF train.files[i]
       THEN /\ train' = [train EXCEPT !.opened = @ \cup {i}]
            /\ pc' = "train_open"
     ELSE /\ train' = [train EXCEPT !.raised = FailedToTrain]
          /\ pc' = "train_finally"
  /\ TrainUnchanged

\* client.py:176-185: the request; a failure raises 'Failed to train model'
TrainPost ==
  /\ pc = "train_post"
  /\ train' = IF train.post = "ok" THEN [train EXCEPT !.returned = TRUE]
              ELSE [train EXCEPT !.raised = FailedToTrain]
  /\ pc' = "train_finally"
  /\ TrainUnchanged

\* client.py:186-192: the finally clause closes the files of `files`; when
\* `files` was never assigned, reading it raises UnboundLocalError, which
\* takes the place of the exception on its way out, and the files opened
\* before the failure are left to the garbage collector, which closes them
\* or not
TrainFinally ==
  /\ pc = "train_finally"
  /\ IF train.bound
       THEN train' = [train EXCEPT !.closed = train.opened]
       ELSE \E collected \in BOOLEAN :
              train' = [train EXCEPT !.closed = IF collected THEN train.opened ELSE {},
                                     !.raised = "UnboundLocalError"]
  /\ pc' = "train_done"
  /\ TrainUnchanged

InitTrain ==
  /\ pc = "train_open"
  /\ now = 0
  /\ start_time = 0
  /\ max_wait = 0
  /\ poll_interval = DefaultPollInterval
  /\ prompt_id = ""
  /\ hasPath = TRUE
  /\ workflow_path = "a.json"
  /\ configured_path = ""
  /\ TemplateNotModelled
  /\ \E n \in 0..MaxFiles, post \in {"ok", "http_error", "transport_error"} :
       \E files \in [1..n -> BOOLEAN] :
         train = [NoTrain EXCEPT !.files = files, !.post = post]
  /\ InitCommon

NextTrain ==
  \/ TrainOpen
  \/ TrainPost
  \/ TrainFinally

SpecTrain == InitTrain /\ [][NextTrain]_vars

\* ------------------------------------------------------------- claims
\* C1: in execute_workflow a download is requested only after
\* wait_for_completion returned True, which it does only when one of its
\* polls met the prompt's history record with an "outputs" section.
C1_DownloadOnlyAfterCompletion ==
  Len(attempted) > 0 => (completed = "true" /\ sawOutputs)

\* a download was requested in a call whose wait met a failed poll first
C1_Witness ==
  /\ Len(attempted) > 0
  /\ nFailedPolls > 0
  /\ nPolls > 1

\* C2: get_output_files returns a non-empty list only when the history it
\* fetched holds an entry for the prompt with an "outputs" section; for a
\* missing entry, an entry without "outputs" or a failed fetch it returns
\* the empty list and raises nothing.
C2_OutputsOnlyFromCompletedRecord ==
  nOutReq > 0 =>
    /\ (output_files # << >> => RespHasOutputs(outResp, prompt_id))
    /\ (~RespHasOutputs(outResp, prompt_id) =>
          output_files = << >> /\ result.kind = "no_outputs")

\* get_output_files returned descriptors
C2_Witness ==
  /\ nOutReq > 0
  /\ Len(output_files) > 1
  /\ pc = "download"

\* C3: wait_for_completion never raises; it returns True only if one of its
\* polls met the record with "outputs", and then at once; otherwise it stays
\* pending until the elapsed-time check fails, and then returns False.
C3_TwoOutcomes ==
  /\ completed \in {"pending", "true", "false"}
  /\ completed = "pending" <=> pc = "wait"
  /\ completed = "true" <=> sawOutputs
  /\ completed = "true" => RespHasOutputs(lastPoll.resp, prompt_id)
  /\ completed = "false" => returnTime - start_time >= max_wait

\* the wait polled more than once, an answer that was no mapping among
\* them, and ended in a timeout
C3_Witness ==
  /\ completed = "false"
  /\ nPolls > 1
  /\ lastPoll.resp = Resp("ok", NullBody)

\* C4: wait_for_completion(max_wait = T, poll_interval = P) returns no later
\* than T + P after it was called, the time its history requests take
\* counted, and returns False when no poll met a success record.
C4_ReturnsWithinTPlusP ==
  (pc = "after_wait" /\ max_wait >= 0) =>
    /\ returnTime - start_time <= max_wait + poll_interval
    /\ (~sawOutputs => completed = "false")

C6_FailedPollIsPending ==
  /\ (nPolls > 0 /\ RespFailed(lastPoll.resp)) =>
        \/ (pc = "wait" /\ completed = "pending")
        \/ (completed = "false" /\ returnTime - start_time >= max_wait)
  /\ (nFailedPolls > 0 /\ nPolls > 0 /\ RespHasOutputs(lastPoll.resp, prompt_id)) =>
        completed = "true"

\* a poll failed and a later one made the call return True
C6_Witness ==
  /\ nFailedPolls > 0
  /\ completed = "true"
  /\ lastPoll.start > start_time

\* C7: queue_prompt returns the non-empty prompt id of the backend's answer
\* or raises with the context "Failed to queue workflow"; it raises on a
\* failed request, a non-2xx status and a body without a prompt id, and
\* returns no empty or null id.
C7_QueuePromptIdOrRaise ==
  nPost > 0 =>
    /\ queued.exc => queued.context = "Failed to queue workflow"
    /\ ~queued.exc =>
         /\ postResp.status = "ok"
         /\ postResp.body.t = "dict"
         /\ postResp.body.has_pid
         /\ queued.val = postResp.body.pid
         /\ queued.val.t = "str"
         /\ queued.val.s # ""
         /\ prompt_id = queued.val.s
    /\ (postResp.status # "ok" \/ postResp.body.t # "dict" \/ ~postResp.body.has_pid) =>
         (queued.exc /\ result = Finish("exception", "Failed to queue workflow"))

\* queue_prompt returned an id and the wait began
C7_Witness ==
  /\ nPost > 0
  /\ ~queued.exc
  /\ pc = "wait"
  /\ prompt_id = ThePid

\* C8: the download loop requests the descriptors in their order, each once;
\* when it ends every descriptor was attempted, the saved list has one path
\* for each pass that did not fail (N - k), in order, and the call ends with
\* a result, not an exception.
C8_DownloadLoopPartialSuccess ==
  /\ Len(attempted) <= Len(output_files)
  /\ \A i \in 1..Len(attempted) : attempted[i] = output_files[i]
  /\ Len(saved_files) = Len(attempted) - failedPasses
  /\ pc = "download" => Len(attempted) < Len(output_files)
  /\ (pc = "done" /\ nOutReq > 0 /\ result.kind \notin {"no_outputs", "exception"}) =>
        /\ Len(attempted) = Len(output_files)
        /\ result.kind = (IF failedPasses < Len(output_files) THEN "success" ELSE "download_failed")

\* three descriptors, the first failed, the later two were saved
C8_Witness ==
  /\ pc = "done"
  /\ Len(output_files) = 3
  /\ failedPasses = 1
  /\ saved_files = <<SavePath(output_files[2]), SavePath(output_files[3])>>

\* C9: two calls of text_to_speech, or of generate_audio, with the same text
\* never use the same file name, so the later never replaces the file the
\* earlier saved.
C9_RepeatedTextDistinctNames ==
  \A o \in overwrites :
    (o.tool \in {"text_to_speech", "generate_audio"} /\ o.tool = o.wasTool) => o.input # o.wasInput

\* C10: two calls of convert_voice, or of separate_audio, with the same input
\* file, model and format never use the same file name, so the later never
\* replaces an artifact the earlier saved.
C10_RepeatedRunDistinctNames ==
  \A o \in overwrites :
    (o.tool \in {"convert_voice", "separate_audio"} /\ o.tool = o.wasTool) => o.input # o.wasInput

\* C11: check_health of each of the four adapters raises nothing: it gives
\* True for an answer with status 200, and False for every exception of the
\* request and for every answer whose status is outside 200..299.
C11_CheckHealthNeverRaises ==
  probe.adapter # "none" =>
    /\ probe.adapter \in Adapters
    /\ ~probe.returned.exc
    /\ (probe.answer.kind = "response" /\ probe.answer.status_code = 200)
          => probe.returned.val
    /\ probe.answer.kind # "response" => ~probe.returned.val
    /\ (probe.answer.kind = "response" /\ probe.answer.status_code \notin 200..299)
          => ~probe.returned.val
    /\ result.kind # "raised"
    /\ lastCall.result # "raised"

\* the RVC server refused the connection: check_health gave False and
\* convert_voice returned its connection error
C11_Witness ==
  /\ probe.adapter = "rvc"
  /\ probe.path = "/health"
  /\ probe.answer.kind = "ConnectError"
  /\ probe.returned = Health(FALSE)
  /\ lastCall.tool = "convert_voice"
  /\ lastCall.result = "connect_error"

\* C12: a tool that talks to a backend sends the health probe first, before
\* any other request; when check_health gave False the tool has sent no
\* submission, poll, history or download request and has written no file.
C12_ProbeFirst ==
  /\ (nPost > 0 \/ nPolls > 0 \/ nOutReq > 0 \/ attempted # << >>) =>
        (nHealth = 1 /\ probe.adapter = "comfyui" /\ probe.returned.val)
  /\ (probe.adapter = "comfyui" /\ ~probe.returned.val) =>
        /\ nPost = 0 /\ nPolls = 0 /\ nOutReq = 0
        /\ attempted = << >>
        /\ fs = EmptyFs
        /\ result.kind = "connect_error"
  /\ lastCall.reqs # << >> =>
        /\ Head(lastCall.reqs) = "health"
        /\ \A i \in 2..Len(lastCall.reqs) : lastCall.reqs[i] # "health"
        /\ probe.adapter \in Adapters \ {"comfyui"}
        /\ Len(lastCall.reqs) > 1 => probe.returned.val
  /\ (pc = "tool" /\ nCalls > 0 /\ probe.adapter # "none" /\ ~probe.returned.val) =>
        /\ lastCall.reqs = <<"health">>
        /\ lastCall.paths = << >>
        /\ fs = EmptyFs
        /\ lastCall.result = "connect_error"

\* the UVR5 server answered the probe with 503: separate_audio sent nothing
\* else
C12_Witness ==
  /\ lastCall.tool = "separate_audio"
  /\ probe.answer = HealthAnswer("response", 503)
  /\ lastCall.reqs = <<"health">>
  /\ fs = EmptyFs

\* C13: load_workflow returns the template parsed from the file, or raises
\* an exception whose message names the path and the cause; for a missing,
\* unreadable or unparsable file it raises, and the call has no template,
\* empty or partial.
C13_LoadReturnsTemplateOrRaises ==
  (pc # "load" /\ WfPath(workflow_path, configured_path) # "") =>
    /\ loaded.exc =>
          /\ wfFile.kind # "valid"
          /\ \E i \in 1..Len(loaded.message) :
                loaded.message[i] = WfPath(workflow_path, configured_path)
          /\ \E i \in 1..Len(loaded.message) : loaded.message[i] = wfFile.error
          /\ workflow = NullV
          /\ pc = "done"
          /\ result.kind = "exception"
    /\ ~loaded.exc => (wfFile.kind = "valid" /\ loaded.val = wfFile.content)
    /\ wfFile.kind \in {"missing", "unreadable", "unparsable"} => loaded.exc

\* the configured path holds a file cut off in the middle of the template
C13_Witness ==
  /\ pc = "done"
  /\ workflow_path = ""
  /\ configured_path = "env.json"
  /\ wfFile.kind = "unparsable"
  /\ wfFile.content # EmptyDict
  /\ loaded = LoadRaise("env.json", "Expecting value")

\* two mappings have the same keys in the same order, and the same value
\* under every key but k
SameBut(d, e, k) ==
  /\ e.t = "dict"
  /\ Len(e.items) = Len(d.items)
  /\ \A i \in 1..Len(d.items) :
        /\ e.items[i][1] = d.items[i][1]
        /\ d.items[i][1] # k => e.items[i][2] = d.items[i][2]

\* node n is node o but, at most, for the value of the "text" key that o's
\* inputs have
OnlyTextChanged(o, n, text) ==
  IF o.t = "dict" /\ HasKey(o, "inputs") /\ Get(o, "inputs").t = "dict"
       /\ HasKey(Get(o, "inputs"), "text")
    THEN /\ SameBut(o, n, "inputs")
         /\ SameBut(Get(o, "inputs"), Get(n, "inputs"), "text")
         /\ Get(Get(n, "inputs"), "text") \in {Get(Get(o, "inputs"), "text"), StrV(text)}
    ELSE n = o

\* C14: the injection of prompt_text leaves the template with the nodes it
\* was loaded with, in their order; a node differs from the loaded one only
\* in the value of the "text" key its inputs already had; a call without
\* prompt_text changes nothing, and an injection that ends without an
\* exception has set every such "text".
C14_OnlyTextInputsChange ==
  textInjected # NullV =>
    /\ textInjected.t = loaded.val.t
    /\ Len(textInjected.items) = Len(loaded.val.items)
    /\ loaded.val.t # "dict" => textInjected = loaded.val
    /\ loaded.val.t = "dict" =>
          \A i \in 1..Len(loaded.val.items) :
            /\ textInjected.items[i][1] = loaded.val.items[i][1]
            /\ OnlyTextChanged(loaded.val.items[i][2], textInjected.items[i][2], prompt_text)
    /\ prompt_text \in {NoneStr, ""} => textInjected = loaded.val
    /\ (prompt_text \notin {NoneStr, ""} /\ pc \in {"inject_params", "queue"}) =>
          \A i \in 1..Len(textInjected.items) :
            LET n == textInjected.items[i][2] IN
            (n.t = "dict" /\ HasKey(n, "inputs") /\ HasKey(Get(n, "inputs"), "text"))
              => Get(Get(n, "inputs"), "text") = StrV(prompt_text)

\* a template of five entries, two of them text nodes: both were set
C14_Witness ==
  /\ pc = "inject_params"
  /\ loaded.val = WfMany
  /\ prompt_text = "new"
  /\ textInjected # loaded.val
  /\ Get(Get(Get(textInjected, "2"), "inputs"), "text") = StrV("new")
  /\ Get(Get(Get(textInjected, "5"), "inputs"), "text") = StrV("new")
  /\ Get(textInjected, "1") = SamplerNode

\* the injection of workflow_params has been run, to its end or to an
\* exception
ParamsDone == pc = "queue" \/ (pc = "done" /\ result = Finish("exception", "workflow_params"))

\* an override the template has no place for: its node is not in the
\* template, or the node's inputs have none of its keys
Unrecognized(wf, entry) ==
  \/ ~HasKey(wf, entry[1])
  \/ /\ Get(wf, entry[1]).t = "dict"
     /\ HasKey(Get(wf, entry[1]), "inputs")
     /\ Get(Get(wf, entry[1]), "inputs").t = "dict"
     /\ entry[2].t = "dict"
     /\ Keys(entry[2]) \cap Keys(Get(Get(wf, entry[1]), "inputs")) = {}

ListKinds == {"images", "audio"}
ListOf(out, kind) == IF kind = "images" THEN out.images ELSE out.audio
Entries(outputs) ==
  UNION { IF kind \in outputs[i][2].kinds
            THEN { <<i, kind, j>> : j \in 1..Len(ListOf(outputs[i][2], kind)) }
            ELSE {} :
          i \in 1..Len(outputs), kind \in ListKinds }
Listed(outputs, e) == ListOf(outputs[e[1]][2], e[2])[e[3]]

\* descriptor d is the one of entry e
DescribesEntry(outputs, d, e) ==
  /\ d.type = (IF e[2] = "images" THEN "image" ELSE "audio")
  /\ d.node_id = outputs[e[1]][1]
  /\ d.filename = Listed(outputs, e).filename
  /\ d.subfolder = Listed(outputs, e).subfolder

\* C16: get_output_files returns one descriptor for each entry of each
\* node's "images" and "audio" lists in the completed record, no more and
\* no fewer, each tagged "image" or "audio" after its list and with its
\* node's id.
C16_OneDescriptorPerEntry ==
  (nOutReq > 0 /\ RespHasOutputs(outResp, prompt_id)) =>
    LET outputs == Get(outResp.body, prompt_id).outputs
        E == Entries(outputs)
    IN /\ Len(output_files) = Cardinality(E)
       /\ \A q \in 1..Len(output_files) :
             \E e \in E : DescribesEntry(outputs, output_files[q], e)
       /\ \A e \in E :
             Cardinality({q \in 1..Len(output_files) :
                            DescribesEntry(outputs, output_files[q], e)})
               = Cardinality({f \in E : Listed(outputs, f) = Listed(outputs, e)
                                         /\ f[1] = e[1] /\ f[2] = e[2]})

\* one image entry and one audio entry: two descriptors, tagged
C16_Witness ==
  /\ nOutReq > 0
  /\ outResp = Resp("ok", Dict(<< <<ThePid, Entry(TRUE, Out2)>> >>))
  /\ Len(output_files) = 2
  /\ output_files[1] = [type |-> "image", filename |-> "i.png", subfolder |-> "", node_id |-> "n1"]
  /\ output_files[2] = [type |-> "audio", filename |-> "a.wav", subfolder |-> "", node_id |-> "n1"]

\* C17: a node output of a kind that is neither "images" nor "audio" gives
\* no descriptor and no error, and the descriptors of the entries beside it,
\* in its node and in the other nodes, are returned.
C17_UnknownKindsIgnored ==
  ( /\ nOutReq > 0
    /\ RespHasOutputs(outResp, prompt_id)
    /\ \E i \in 1..Len(Get(outResp.body, prompt_id).outputs) :
          Get(outResp.body, prompt_id).outputs[i][2].kinds \ ListKinds # {} )
  => LET outputs == Get(outResp.body, prompt_id).outputs IN
     /\ result # Finish("exception", "get_output_files")
     /\ \A i \in 1..Len(outputs) :
           outputs[i][2].kinds \cap ListKinds = {} =>
             \A q \in 1..Len(output_files) : output_files[q].node_id # outputs[i][1]
     /\ \A e \in Entries(outputs) :
           \E q \in 1..Len(output_files) : DescribesEntry(outputs, output_files[q], e)
     /\ \A q \in 1..Len(output_files) : output_files[q].type \in {"image", "audio"}

\* a record of three nodes, the second of a kind that is not known: the
\* three descriptors of the two others were returned
C17_Witness ==
  /\ pc = "download"
  /\ outResp.body = Dict(<< <<OtherPid, Entry(TRUE, Out1)>>, <<ThePid, Entry(TRUE, Out3)>> >>)
  /\ Len(output_files) = 3
  /\ \A q \in 1..3 : output_files[q].node_id \in {"n1", "n3"}

\* the requests that ask for a job's state or fetch its outputs
PollRequests == {"result", "history", "download"}

\* C18: a successful call of convert_voice, text_to_speech or generate_audio
\* has sent the probe and the submission and no request for a job's status,
\* and has written one file, which holds the bytes the submission was
\* answered with.
C18_SyncResultOneArtifact ==
  ( /\ lastCall.tool \in {"convert_voice", "text_to_speech", "generate_audio"}
    /\ lastCall.result = "success" )
  => /\ Len(lastCall.reqs) = 2
     /\ \A i \in 1..Len(lastCall.reqs) : lastCall.reqs[i] \notin PollRequests
     /\ nPolls = 0
     /\ Len(lastCall.paths) = 1
     /\ {p \in DOMAIN fs : fs[p].call = nCalls} = {lastCall.paths[1]}
     /\ fs[lastCall.paths[1]] =
          [call |-> nCalls, tool |-> lastCall.tool, input |-> lastCall.input, whole |-> TRUE]

\* convert_voice succeeded: one file, named after the input and the model
C18_Witness ==
  /\ lastCall.tool = "convert_voice"
  /\ lastCall.result = "success"
  /\ lastCall.reqs = <<"health", "convert">>
  /\ DOMAIN fs = {<<OutDir, <<"song", "rvc", "m2", "wav">> >>}

\* a job's terminal states, as the UVR5 backend names them
TerminalStatuses == {"completed", "error"}

\* C19: a call that received a job token goes on, or returns, only when the
\* job is in a terminal state or the deadline has passed: separate_audio has
\* returned only with the job completed or failed, and execute_workflow is
\* past its wait only with the success record met or max_wait elapsed.
C19_JobWaitedToTerminal ==
  /\ (lastCall.tool = "separate_audio" /\ jobStatus # NoJob) => jobStatus \in TerminalStatuses
  /\ (pc \in {"after_wait", "outputs", "download"}) =>
        \/ completed = "true" /\ sawOutputs
        \/ completed = "false" /\ returnTime - start_time >= max_wait

\* what a tool returns as text: its success message and its messages for a
\* backend out of reach, a missing path or file or text, a caught exception,
\* a timeout, no outputs, no download saved, a job not completed, no stems
TextResults ==
  {"success", "connect_error", "no_path", "text_required", "prompt_required", "file_not_found", "exception", "timeout",
   "no_outputs", "download_failed", "in_progress", "no_stems"}

\* C20: a tool that has ended has returned a text result, whatever failed:
\* execute_workflow for a backend out of reach, a template that does not
\* load, a submission that fails, a timeout, downloads that fail and an
\* output directory that cannot be made; the other tools likewise; none of
\* them ends with an exception.
C20_TextResultForEveryFailure ==
  /\ pc = "done" =>
       /\ result.kind \in TextResults
       /\ (nHealth > 0 /\ ~probe.returned.val) => result.kind = "connect_error"
       /\ queued.exc => result.kind = "exception"
       /\ completed = "false" => result.kind = "timeout"
       /\ (attempted # << >> /\ saved_files = << >>) => result.kind = "download_failed"
  /\ nCalls > 0 =>
       /\ lastCall.result \in TextResults
       /\ (probe.adapter # "none" /\ ~probe.returned.val) => lastCall.result = "connect_error"

\* convert_voice met a failure after its submission was answered and
\* returned the text of the exception
C20_Witness ==
  /\ lastCall.tool = "convert_voice"
  /\ lastCall.reqs = <<"health", "convert">>
  /\ lastCall.result = "exception"
  /\ DOMAIN fs # {}

\* C21: execute_workflow ends with the timeout result exactly when
\* wait_for_completion returned False; a submission that failed ends with
\* the error result that names the submission, never with the timeout
\* result, and a timeout never ends with the error result or with success.
C21_TimeoutExactlyOnFalse ==
  /\ result.kind = "timeout" <=> (pc = "done" /\ completed = "false")
  /\ queued.exc =>
       /\ pc = "done"
       /\ result = Finish("exception", "Failed to queue workflow")
       /\ completed = "pending"
  /\ (pc = "done" /\ completed = "false") =>
       /\ ~queued.exc
       /\ result.kind \notin {"exception", "success"}

\* the wait ran into the deadline after polls that were answered, and the
\* call reported the timeout
C21_Witness ==
  /\ pc = "done"
  /\ completed = "false"
  /\ nPolls > 1
  /\ nPost = 1
  /\ result = Finish("timeout", "")

\* C22: a call of execute_workflow posts the workflow at most once; when
\* its wait returned False the call has sent nothing after the last poll of
\* the wait (no second submission, no history request for the outputs, no
\* download) and has written no file.
C22_NothingAfterTimeout ==
  /\ nPost <= 1
  /\ (pc = "done" /\ completed = "false") =>
       /\ nPost = 1
       /\ nHealth = 1
       /\ nOutReq = 0
       /\ attempted = << >>
       /\ saved_files = << >>
       /\ fs = EmptyFs
       /\ lastPoll.end <= returnTime

\* a timed-out call whose last poll met a record still without outputs
C22_Witness ==
  /\ pc = "done"
  /\ completed = "false"
  /\ result.kind = "timeout"
  /\ nPolls > 0
  /\ ~RespFailed(lastPoll.resp)
  /\ ~RespHasOutputs(lastPoll.resp, prompt_id)

\* C23: when a batch has ended, every path of its saved list names a file
\* that holds the whole of the bytes downloaded for it, in execute_workflow
\* and in separate_audio: no listed path names a partly written file.
C23_ListedFilesAreWhole ==
  /\ pc = "done" =>
       \A i \in 1..Len(saved_files) :
         /\ saved_files[i] \in DOMAIN fs
         /\ fs[saved_files[i]].whole
  /\ lastCall.tool = "separate_audio" =>
       \A i \in 1..Len(lastCall.paths) :
         /\ lastCall.paths[i] \in DOMAIN fs
         /\ fs[lastCall.paths[i]] = SyncBytes(nCalls, lastCall.tool, lastCall.input)

\* the stem kinds of the separation backend (client.py:120)
StemVocabulary == {"vocals", "instrumental", "drums", "bass", "other"}
\* the stems separate_audio has a switch for (server.py:58-59)
Switched == {"vocals", "instrumental"}

\* C24: when separate_audio has gone through a completed result, every stem
\* of the vocabulary the result lists has its artifact among the saved paths
\* (unless its extraction was switched off or its download or write
\* failed), and the saved paths name stems of the vocabulary only.
C24_VocabularyStemsSaved ==
  (lastCall.tool = "separate_audio" /\ lastCall.result \in {"success", "no_stems"}) =>
    /\ \A st \in (lastStems.listed \cap StemVocabulary) \ lastStems.failing :
          (st \in Switched => st \in lastStems.extract)
            => <<OutDir, StemFile(lastCall.input.file, st, "wav")>> \in Range(lastCall.paths)
    /\ \A i \in 1..Len(lastCall.paths) :
          \E st \in lastStems.listed \cap StemVocabulary :
            lastCall.paths[i] = <<OutDir, StemFile(lastCall.input.file, st, "wav")>>

\* C25: wait_for_completion called with max_wait <= 0 issues no history
\* poll and returns False, at the moment it was called: what the job's
\* history record holds is never looked at.
C25_NoPollWithoutBudget ==
  max_wait <= 0 =>
    /\ nPolls = 0
    /\ lastPoll = NoPoll
    /\ ~sawOutputs
    /\ pc # "wait" => (completed = "false" /\ returnTime = start_time)

\* a call with max_wait = 0 has returned
C25_Witness ==
  /\ max_wait = 0
  /\ pc = "after_wait"
  /\ completed = "false"
  /\ nPolls = 0

\* C26: wait_for_completion returns False only once the time since it was
\* called is at least max_wait, and at the moment the loop condition was
\* found false: failed polls and records without outputs, however many,
\* keep the call waiting as long as time is left.
C26_NoEarlyTimeout ==
  /\ completed = "false" =>
       /\ returnTime - start_time >= max_wait
       /\ returnTime = now
       /\ nPolls > 0 => returnTime = lastPoll.end + poll_interval
  /\ (pc = "wait" /\ nPolls > 0) =>
       /\ completed = "pending"
       /\ now = lastPoll.end + poll_interval

\* the wait ended in a timeout after three polls, failed ones and ones
\* that met a record without outputs among them
C26_Witness ==
  /\ completed = "false"
  /\ max_wait > 0
  /\ nPolls > 2
  /\ nFailedPolls > 0
  /\ nFailedPolls < nPolls
  /\ ~sawOutputs

\* the file list of the prompt's record in an answer, in the record's order
RecordFiles(resp) ==
  IF RespHasOutputs(resp, prompt_id) THEN Flatten(Get(resp.body, prompt_id).outputs) ELSE << >>
\* the call has ended, and not for want of the output directory
BatchEnded == pc = "done" /\ result # Finish("exception", "mkdir")

Differ(f, g) == f.filename # g.filename \/ f.subfolder # g.subfolder

\* C28: when the descriptors of a batch differ pairwise in filename or in
\* subfolder, the saved list of the ended batch names each path once and
\* each listed file holds the bytes of the one descriptor saved there: as
\* many files were written as the list has entries.
C28_DistinctDescriptorsDistinctPaths ==
  ( /\ pc = "done"
    /\ \A i, j \in 1..Len(attempted) : i # j => Differ(attempted[i], attempted[j]) )
  => /\ \A i, j \in 1..Len(saved_files) : i # j => saved_files[i] # saved_files[j]
     /\ Cardinality(DOMAIN fs) >= Len(saved_files)

\* C29: when train_model has ended, every training file it opened has been
\* closed, and a call that did not return has raised the 'Failed to train
\* model' exception: after a failed request, and after a file of the list
\* that could not be opened.
C29_FilesClosedAndOneException ==
  pc = "train_done" =>
    /\ train.closed = train.opened
    /\ train.returned <=> train.raised = "none"
    /\ ~train.returned => train.raised = FailedToTrain

\* a node that workflow[node_id]["inputs"].update can be applied to
HasInputsMapping(node) ==
  node.t = "dict" /\ HasKey(node, "inputs") /\ Get(node, "inputs").t = "dict"
\* workflow_params that is no JSON, or that names a node of the template
\* (as the prompt_text injection left it) without an "inputs" mapping
ParamsFail ==
  \/ workflow_params.kind = "invalid"
  \/ /\ workflow_params.kind = "json"
     /\ workflow_params.val.t = "dict"
     /\ textInjected.t = "dict"
     /\ \E i \in 1..Len(workflow_params.val.items) :
          LET node_id == workflow_params.val.items[i][1] IN
          /\ HasKey(textInjected, node_id)
          /\ ~HasInputsMapping(Get(textInjected, node_id))
\* the call has gone through the parameter injection
ParamsStepTaken ==
  \/ pc \in {"queue", "submitted"}
  \/ pc = "done" /\ result.context \in {"workflow_params", "Failed to queue workflow"}

\* C30: when the parameter injection of execute_workflow fails, the call
\* has ended with an error result and has posted nothing to the backend,
\* polled nothing and downloaded nothing.
C30_FailedInjectionSubmitsNothing ==
  (ParamsStepTaken /\ ParamsFail) =>
    /\ pc = "done"
    /\ result = Finish("exception", "workflow_params")
    /\ nPost = 0
    /\ postResp = NoPost
    /\ nPolls = 0
    /\ nOutReq = 0
    /\ attempted = << >>
    /\ fs = EmptyFs

\* an override of a node without "inputs", after an override that was
\* applied, ended the call
C30_Witness ==
  /\ pc = "done"
  /\ result = Finish("exception", "workflow_params")
  /\ workflow_params.kind = "json"
  /\ HasKey(textInjected, "3")
  /\ ~HasInputsMapping(Get(textInjected, "3"))
  /\ workflow # textInjected
  /\ nPost = 0

====
